---------------------------- MODULE Spec2Model ----------------------------
(***************************************************************************)
(* stop-ai-agent-hallucinations.  The rule-gated tool execution of         *)
(* 04-neurosymbolic-demo: the symbolic rules engine (rules.py) and the     *)
(* hook that validates every tool call before the tool runs                *)
(* (test_neurosymbolic_hooks.py).  The booking tools of 03-multiagent-demo *)
(* (tools.py).  The tool swap of 02-semantic-tools-demo (registry.py,      *)
(* token_comparison_app.py).                                               *)
(***************************************************************************)
EXTENDS Integers, Sequences, FiniteSets, TLC

(***************************************************************************)
(* Python values.  A value carries its type, a number and a string; a      *)
(* string is the sequence of its pieces (single characters where the code  *)
(* looks inside the string, whole literals where it only concatenates).    *)
(***************************************************************************)
NoneVal == [t |-> "NoneType", n |-> 0, s |-> <<>>]
IntVal(n) == [t |-> "int", n |-> n, s |-> <<>>]
FloatVal(n) == [t |-> "float", n |-> n, s |-> <<>>]
BoolVal(b) == [t |-> "bool", n |-> IF b THEN 1 ELSE 0, s |-> <<>>]
StrVal(s) == [t |-> "str", n |-> 0, s |-> s]
\* a datetime, as the number of hours since the midnight that starts day 0
\* of the proleptic Gregorian calendar (ordinal * 24 + hour)
DateTimeVal(h) == [t |-> "datetime", n |-> h, s |-> <<>>]

HoursPerDay == 24

\* bool(v): Python truthiness
Truthy(v) ==
    CASE v.t = "NoneType" -> FALSE
      [] v.t \in {"int", "float", "bool"} -> v.n # 0
      [] v.t = "str" -> v.s # <<>>
      [] OTHER -> TRUE

\* a < b, a <= b, a >= b raise TypeError unless both are numbers or both are
\* datetimes (no context of the program holds two strings to be ordered)
Orderable(a, b) ==
    \/ a.t \in {"int", "float", "bool"} /\ b.t \in {"int", "float", "bool"}
    \/ a.t = "datetime" /\ b.t = "datetime"

\* dict.get(key, default)
Get(d, key, default) == IF key \in DOMAIN d THEN d[key] ELSE default

EmptyDict == [k \in {} |-> NoneVal]

(***************************************************************************)
(* datetime.strptime(s, "%Y-%m-%d") and the calendar arithmetic behind it. *)
(***************************************************************************)
Digits == {"0", "1", "2", "3", "4", "5", "6", "7", "8", "9"}

DigitVal(c) ==
    CASE c = "0" -> 0 [] c = "1" -> 1 [] c = "2" -> 2 [] c = "3" -> 3
      [] c = "4" -> 4 [] c = "5" -> 5 [] c = "6" -> 6 [] c = "7" -> 7
      [] c = "8" -> 8 [] c = "9" -> 9

IsLeap(y) == y % 4 = 0 /\ (y % 100 # 0 \/ y % 400 = 0)

DaysInMonth(y, m) ==
    CASE m \in {1, 3, 5, 7, 8, 10, 12} -> 31
      [] m \in {4, 6, 9, 11} -> 30
      [] OTHER -> IF IsLeap(y) THEN 29 ELSE 28

RECURSIVE DaysBeforeMonth(_, _)
DaysBeforeMonth(y, m) ==
    IF m <= 1 THEN 0 ELSE DaysBeforeMonth(y, m - 1) + DaysInMonth(y, m - 1)

DaysBeforeYear(y) ==
    (y - 1) * 365 + ((y - 1) \div 4) - ((y - 1) \div 100) + ((y - 1) \div 400)

\* date(y, m, d).toordinal()
Ordinal(y, m, d) == DaysBeforeYear(y) + DaysBeforeMonth(y, m) + d

\* The directive %m at position p of s: 1[0-2] | 0[1-9] | [1-9], taken so
\* that the "-" of the format follows.  0 when nothing matches.
MonthLen(s, p) ==
    IF /\ Len(s) >= p + 2
       /\ \/ s[p] = "1" /\ s[p + 1] \in {"0", "1", "2"}
          \/ s[p] = "0" /\ s[p + 1] \in Digits \ {"0"}
       /\ s[p + 2] = "-"
    THEN 2
    ELSE IF Len(s) >= p + 1 /\ s[p] \in Digits \ {"0"} /\ s[p + 1] = "-"
         THEN 1
         ELSE 0

\* The directive %d at position p of s, the last of the format:
\* 3[01] | [12]\d | 0[1-9] | [1-9] | " "[1-9], the first alternative that
\* matches.  0 when nothing matches.
DayLen(s, p) ==
    IF /\ Len(s) >= p + 1
       /\ \/ s[p] = "3" /\ s[p + 1] \in {"0", "1"}
          \/ s[p] \in {"1", "2"} /\ s[p + 1] \in Digits
          \/ s[p] = "0" /\ s[p + 1] \in Digits \ {"0"}
    THEN 2
    ELSE IF Len(s) >= p /\ s[p] \in Digits \ {"0"}
         THEN 1
         ELSE IF Len(s) >= p + 1 /\ s[p] = " " /\ s[p + 1] \in Digits \ {"0"}
              THEN 2
              ELSE 0

\* The number a run of digits (and blanks) spells
RECURSIVE NumberOf(_)
NumberOf(s) ==
    IF s = <<>> THEN 0
    ELSE IF s[Len(s)] = " " THEN NumberOf(SubSeq(s, 1, Len(s) - 1))
         ELSE 10 * NumberOf(SubSeq(s, 1, Len(s) - 1)) + DigitVal(s[Len(s)])

\* datetime.strptime(v, "%Y-%m-%d"): [ok, h].  ok is FALSE where strptime
\* raises: v is no string (TypeError), the string does not match the
\* format or text remains after the match, or the day is out of range for
\* the month or the year is 0 (ValueError).
Strptime(v) ==
    LET s == v.s
        failed == [ok |-> FALSE, h |-> 0]
    IN  IF v.t # "str" THEN failed
        ELSE IF ~(/\ Len(s) >= 5
                  /\ \A i \in 1..4 : s[i] \in Digits
                  /\ s[5] = "-")
        THEN failed
        ELSE LET ml == MonthLen(s, 6) IN
             IF ml = 0 THEN failed
             ELSE LET dp == 6 + ml + 1
                      dl == DayLen(s, dp)
                  IN  IF dl = 0 \/ dp + dl - 1 # Len(s) THEN failed
                      ELSE LET y == NumberOf(SubSeq(s, 1, 4))
                               m == NumberOf(SubSeq(s, 6, 6 + ml - 1))
                               d == NumberOf(SubSeq(s, dp, dp + dl - 1))
                           IN  IF y < 1 \/ d > DaysInMonth(y, m) THEN failed
                               ELSE [ok |-> TRUE,
                                     h |-> Ordinal(y, m, d) * HoursPerDay]

\* (a - b).days for two datetimes given in hours: timedelta keeps
\* 0 <= seconds < 86400, so days is the floor of the difference
DeltaDays(a, b) == (a - b) \div HoursPerDay


(***************************************************************************)
(* rules.py: the rules, their conditions and validate.                     *)
(* A condition yields [raised, truth]: whether the call raised, and the    *)
(* truthiness of what it returned (validate only applies "not" to it).     *)
(***************************************************************************)
Returned(b) == [raised |-> FALSE, truth |-> b]
Raised == [raised |-> TRUE, truth |-> FALSE]

valid_dates_check(ctx) ==
    IF ~Truthy(Get(ctx, "check_in", NoneVal)) THEN Returned(FALSE)
    ELSE IF ~Truthy(Get(ctx, "check_out", NoneVal)) THEN Returned(FALSE)
    ELSE IF ~Orderable(ctx["check_in"], ctx["check_out"]) THEN Raised
    ELSE Returned(ctx["check_in"].n < ctx["check_out"].n)

\* max_guests_check, with a bug: a party of ten is turned away
max_guests_check_below_ten(ctx) ==
    LET g == Get(ctx, "guests", IntVal(1))
    IN  IF ~Orderable(g, IntVal(10)) THEN Raised ELSE Returned(g.n < 10)

max_guests_check(ctx) ==
    LET g == Get(ctx, "guests", IntVal(1))
    IN  IF ~Orderable(g, IntVal(10)) THEN Raised ELSE Returned(g.n <= 10)

\* advance_booking_check, with a bug: the threshold of the cancellation
\* window is used
advance_booking_check_two_days(ctx) ==
    LET d == Get(ctx, "days_until_checkin", IntVal(0))
    IN  IF ~Orderable(d, IntVal(2)) THEN Raised ELSE Returned(d.n >= 2)

\* advance_booking_check, with a bug: a context without the key passes
advance_booking_check_default_one(ctx) ==
    LET d == Get(ctx, "days_until_checkin", IntVal(1))
    IN  IF ~Orderable(d, IntVal(1)) THEN Raised ELSE Returned(d.n >= 1)

advance_booking_check(ctx) ==
    LET d == Get(ctx, "days_until_checkin", IntVal(0))
    IN  IF ~Orderable(d, IntVal(1)) THEN Raised ELSE Returned(d.n >= 1)

\* payment_verified_check, with a bug: it reads a key the builder never sets
payment_verified_check_wrong_key(ctx) ==
    Returned(Truthy(Get(ctx, "payment", BoolVal(FALSE))))

payment_verified_check(ctx) ==
    Returned(Truthy(Get(ctx, "payment_verified", BoolVal(FALSE))))

\* cancellation_window_check, with a bug: a context without the key is
\* read as two days away
cancellation_window_check_default_two(ctx) ==
    LET d == Get(ctx, "days_until_checkin", IntVal(2))
    IN  IF ~Orderable(d, IntVal(2)) THEN Raised ELSE Returned(d.n >= 2)

\* cancellation_window_check, with a bug: two whole days are not enough
cancellation_window_check_strict(ctx) ==
    LET d == Get(ctx, "days_until_checkin", IntVal(0))
    IN  IF ~Orderable(d, IntVal(2)) THEN Raised ELSE Returned(d.n > 2)

cancellation_window_check(ctx) ==
    LET d == Get(ctx, "days_until_checkin", IntVal(0))
    IN  IF ~Orderable(d, IntVal(2)) THEN Raised ELSE Returned(d.n >= 2)

\* booking_exists_check, with a bug: the key being there is enough
booking_exists_check_key_present(ctx) ==
    Returned("booking_id" \in DOMAIN ctx)

booking_exists_check(ctx) ==
    Returned(Get(ctx, "booking_id", NoneVal) # NoneVal)

\* r.condition(context): the call of the function the Rule holds
Condition(r, ctx) ==
    CASE r.condition = "valid_dates_check" -> valid_dates_check(ctx)
      [] r.condition = "max_guests_check" -> max_guests_check(ctx)
      [] r.condition = "advance_booking_check" -> advance_booking_check(ctx)
      [] r.condition = "payment_verified_check" -> payment_verified_check(ctx)
      [] r.condition = "cancellation_window_check" ->
            cancellation_window_check(ctx)
      [] r.condition = "booking_exists_check" -> booking_exists_check(ctx)

Rule(name, condition, message) ==
    [name |-> name, condition |-> condition, message |-> message]

BOOKING_RULES ==
    << Rule("valid_dates", "valid_dates_check",
            "Check-in must be before check-out"),
       Rule("max_guests", "max_guests_check",
            "Maximum 10 guests per booking"),
       Rule("advance_booking", "advance_booking_check",
            "Must book at least 1 day in advance") >>

CONFIRMATION_RULES ==
    << Rule("payment_before_confirm", "payment_verified_check",
            "Payment must be verified before confirmation") >>

CANCELLATION_RULES ==
    << Rule("cancellation_window", "cancellation_window_check",
            "Cannot cancel within 48 hours of check-in"),
       Rule("booking_exists", "booking_exists_check",
            "No booking found to cancel") >>

\* Violations, with a bug: a condition that raises is taken as a rule that
\* fails (try: ... except: ok = False)
RECURSIVE Violations_swallow(_, _, _, _)
Violations_swallow(rules, context, i, acc) ==
    IF i > Len(rules)
    THEN [raised |-> FALSE, evaluated |-> Len(rules), violations |-> acc]
    ELSE LET c == Condition(rules[i], context) IN
         Violations_swallow(rules, context, i + 1,
                            IF c.raised \/ ~c.truth
                            THEN Append(acc, rules[i].message)
                            ELSE acc)

\* Violations, with a bug: the name of a failing rule is reported, not its
\* message
RECURSIVE Violations_names(_, _, _, _)
Violations_names(rules, context, i, acc) ==
    IF i > Len(rules)
    THEN [raised |-> FALSE, evaluated |-> Len(rules), violations |-> acc]
    ELSE LET c == Condition(rules[i], context) IN
         IF c.raised
         THEN [raised |-> TRUE, evaluated |-> i, violations |-> <<>>]
         ELSE Violations_names(rules, context, i + 1,
                               IF ~c.truth THEN Append(acc, rules[i].name)
                               ELSE acc)

\* Violations, with a bug: the evaluation stops at the first rule that fails
RECURSIVE Violations_stop_at_first(_, _, _, _)
Violations_stop_at_first(rules, context, i, acc) ==
    IF i > Len(rules) \/ acc # <<>>
    THEN [raised |-> FALSE, evaluated |-> i - 1, violations |-> acc]
    ELSE LET c == Condition(rules[i], context) IN
         IF c.raised
         THEN [raised |-> TRUE, evaluated |-> i, violations |-> <<>>]
         ELSE Violations_stop_at_first(rules, context, i + 1,
                         IF ~c.truth THEN Append(acc, rules[i].message)
                         ELSE acc)

\* The list comprehension of validate, rule by rule from index i on, with
\* the violations collected so far: a condition that raises ends it there.
\* evaluated counts the conditions that were called.
RECURSIVE Violations(_, _, _, _)
Violations(rules, context, i, acc) ==
    IF i > Len(rules)
    THEN [raised |-> FALSE, evaluated |-> Len(rules), violations |-> acc]
    ELSE LET c == Condition(rules[i], context) IN
         IF c.raised
         THEN [raised |-> TRUE, evaluated |-> i, violations |-> <<>>]
         ELSE Violations(rules, context, i + 1,
                         IF ~c.truth THEN Append(acc, rules[i].message)
                         ELSE acc)

\* validate, with a bug: one violation still passes
validate_one_tolerated(rules, context) ==
    LET v == Violations(rules, context, 1, <<>>)
    IN  [raised |-> v.raised,
         evaluated |-> v.evaluated,
         passed |-> ~v.raised /\ Len(v.violations) <= 1,
         violations |-> v.violations]

\* validate(rules, context) -> (passed, violations), or the exception of a
\* condition
validate(rules, context) ==
    LET v == Violations(rules, context, 1, <<>>)
    IN  [raised |-> v.raised,
         evaluated |-> v.evaluated,
         passed |-> ~v.raised /\ Len(v.violations) = 0,
         violations |-> v.violations]


(***************************************************************************)
(* test_neurosymbolic_hooks.py: the stores, the hook, the tools.           *)
(***************************************************************************)
VARIABLES
    stores,     \* STATE: bookings by id, payments by booking id
    now,        \* the clock datetime.now() reads, in hours
    request,    \* the tool call the agent issued: [name, input]
    event,      \* the BeforeToolCallEvent: [tool_use, cancel_tool]
    phase,      \* where the call is: IDLE, PENDING, ALLOWED, BLOCKED, RAISED
    ctx,        \* the context the hook built: [built, d]
    verdict,    \* what validate returned to the hook: [computed, ...]
    result,     \* the tool result handed back for the call, None before
    paid_log,   \* history: the booking ids process_payment returned
                \* SUCCESS for, since the start
    cancelled_log,  \* history: the booking ids cancel_booking returned
                \* SUCCESS for, since the start
    v_rules,    \* validate called on its own: the rules argument,
    v_context,  \* the context argument,
    v_returned  \* and what the call gave: [called, raised, ...]

hook_vars ==
    <<stores, now, request, event, phase, ctx, verdict, result, paid_log,
      cancelled_log>>
validate_vars == <<v_rules, v_context, v_returned>>

\* 03-multiagent-demo/tools.py
VARIABLES
    BOOKINGS,   \* the bookings made, by booking id
    returned    \* the last call of a tool of tools.py: [tool, args, value]

tools_vars == <<BOOKINGS, returned>>

\* 02-semantic-tools-demo: the memory agent of token_comparison_app.py
VARIABLES
    registry,       \* agent.tool_registry.registry: tools by name
    dynamic_tools,  \* agent.tool_registry.dynamic_tools: tools by name
    messages,       \* agent.messages
    selected,       \* the tools search_tools returned for the query
    step            \* where the loop over the queries is

swap_vars == <<registry, dynamic_tools, messages, selected, step>>

\* calls of the tools of test_neurosymbolic_hooks.py running concurrently
VARIABLES
    calls       \* the calls in flight, by slot: [request, phase, seen,
                \* cancel_tool, result]

conc_vars == <<calls>>

vars == <<hook_vars, validate_vars, tools_vars, swap_vars, conc_vars>>

\* Strings the model looks into, character by character
BK001 == <<"B", "K", "0", "0", "1">>
BK002 == <<"B", "K", "0", "0", "2">>
D_2026_02_15 == <<"2", "0", "2", "6", "-", "0", "2", "-", "1", "5">>
D_2026_02_14 == <<"2", "0", "2", "6", "-", "0", "2", "-", "1", "4">>
D_2026_2_16 == <<"2", "0", "2", "6", "-", "2", "-", "1", "6">>
D_2026_02_30 == <<"2", "0", "2", "6", "-", "0", "2", "-", "3", "0">>
D_2026_03_20 == <<"2", "0", "2", "6", "-", "0", "3", "-", "2", "0">>
D_2026_03_25 == <<"2", "0", "2", "6", "-", "0", "3", "-", "2", "5">>
D_soon == <<"s", "o", "o", "n">>

\* STATE as the module defines it
STATE_initial ==
    [bookings |->
        (BK001 :> [hotel |-> StrVal(<<"Grand Hotel">>),
                   check_in |-> StrVal(D_2026_02_15),
                   guests |-> IntVal(2)]),
     payments |-> EmptyDict]

\* key in d, for a store keyed by strings
In(key, d) == key.t = "str" /\ key.s \in DOMAIN d

\* self.rules, with a bug: the confirmation rules are keyed by the payment
\* tool as well
self_rules_payment_guarded ==
    [book_hotel |-> BOOKING_RULES,
     confirm_booking |-> CONFIRMATION_RULES,
     process_payment |-> CONFIRMATION_RULES,
     cancel_booking |-> CANCELLATION_RULES]

\* self.rules of the hook
self_rules ==
    [book_hotel |-> BOOKING_RULES,
     confirm_booking |-> CONFIRMATION_RULES,
     cancel_booking |-> CANCELLATION_RULES]

Built(d) == [raised |-> FALSE, d |-> d]
BuildRaised == [raised |-> TRUE, d |-> EmptyDict]

\* NeurosymbolicHook._build_context(tool_name, params) on the stores and
\* the clock: the context, or raised where an exception leaves the method
\* (params["booking_id"] of a missing key, strptime of a stored check_in).
build_context(tool_name, params, state, clock) ==
    CASE tool_name = "book_hotel" ->
            IF "check_in" \notin DOMAIN params THEN Built(EmptyDict)
            ELSE LET ci == Strptime(params["check_in"]) IN
            IF ~ci.ok THEN Built(EmptyDict)
            ELSE IF "check_out" \notin DOMAIN params THEN Built(EmptyDict)
            ELSE LET co == Strptime(params["check_out"]) IN
            IF ~co.ok THEN Built(EmptyDict)
            ELSE Built([check_in |-> DateTimeVal(ci.h),
                        check_out |-> DateTimeVal(co.h),
                        guests |-> Get(params, "guests", IntVal(1)),
                        days_until_checkin |->
                            IntVal(DeltaDays(ci.h, clock))])
      [] tool_name = "confirm_booking" ->
            IF "booking_id" \notin DOMAIN params THEN BuildRaised
            ELSE Built([payment_verified |->
                            BoolVal(In(params["booking_id"], state.payments))])
      [] tool_name = "cancel_booking" ->
            IF "booking_id" \notin DOMAIN params THEN BuildRaised
            ELSE IF In(params["booking_id"], state.bookings)
            THEN LET booking == state.bookings[params["booking_id"].s]
                     ci == Strptime(booking.check_in)
                 IN  IF ~ci.ok THEN BuildRaised
                     ELSE Built([booking_id |-> params["booking_id"],
                                 days_until_checkin |->
                                     IntVal(DeltaDays(ci.h, clock))])
            ELSE Built([booking_id |-> NoneVal])
      [] OTHER -> Built(EmptyDict)

\* ", ".join(violations)
RECURSIVE Join(_)
Join(msgs) ==
    IF msgs = <<>> THEN <<>>
    ELSE IF Len(msgs) = 1 THEN <<msgs[1]>>
    ELSE <<msgs[1], ", ">> \o Join(Tail(msgs))

\* Rejection, with a bug: the marker is left out
Rejection_no_prefix(violations) == StrVal(Join(violations))

\* f"BLOCKED: {', '.join(violations)}"
Rejection(violations) == StrVal(<<"BLOCKED: ">> \o Join(violations))

NoCtx == [built |-> FALSE, d |-> EmptyDict]
NoVerdict ==
    [computed |-> FALSE, evaluated |-> 0, passed |-> FALSE,
     violations |-> <<>>]


\* str(n) of a number n >= 0
RECURSIVE Decimal(_)
Decimal(n) ==
    LET digit == CHOOSE c \in Digits : DigitVal(c) = n % 10
    IN  IF n < 10 THEN <<digit>> ELSE Append(Decimal(n \div 10), digit)

\* {v} in an f-string
Format(v) ==
    CASE v.t = "str" -> v.s
      [] v.t = "int" -> Decimal(v.n)
      [] v.t = "float" -> Decimal(v.n) \o <<".", "0">>
      [] v.t = "bool" -> IF v.n = 1 THEN <<"True">> ELSE <<"False">>
      [] OTHER -> <<"None">>

\* What NeurosymbolicHook.validate(event) does to the event, and what it
\* computes on the way: [phase, event, ctx, verdict].  RAISED where an
\* exception leaves the hook.
hook_validate(ev, state, clock) ==
    LET tool_name == ev.tool_use.name
        untouched == [phase |-> "ALLOWED", event |-> ev, ctx |-> NoCtx,
                      verdict |-> NoVerdict]
    IN  IF tool_name \notin DOMAIN self_rules THEN untouched
        ELSE LET b == build_context(tool_name, ev.tool_use.input, state, clock)
             IN
             IF b.raised THEN [untouched EXCEPT !.phase = "RAISED"]
             ELSE LET v == validate(self_rules[tool_name], b.d)
                      c == [built |-> TRUE, d |-> b.d]
                  IN
                  IF v.raised
                  THEN [untouched EXCEPT !.phase = "RAISED", !.ctx = c]
                  ELSE LET w == [computed |-> TRUE,
                                 evaluated |-> v.evaluated,
                                 passed |-> v.passed,
                                 violations |-> v.violations]
                       IN  IF ~v.passed
                           THEN [phase |-> "BLOCKED",
                                 event |-> [ev EXCEPT !.cancel_tool =
                                               Rejection(v.violations)],
                                 ctx |-> c, verdict |-> w]
                           ELSE [phase |-> "ALLOWED", event |-> ev,
                                 ctx |-> c, verdict |-> w]

(***************************************************************************)
(* The tool calls the agent can issue.  A key of the input may be missing; *)
(* a value may have a type the tool's signature does not name.             *)
(***************************************************************************)
Missing == [t |-> "missing", n |-> 0, s |-> <<>>]

\* the dict of the keys that are present
Dict(rec) == [k \in {x \in DOMAIN rec : rec[x] # Missing} |-> rec[k]]

CheckInInputs ==
    {Missing} \cup
    {StrVal(s) : s \in {D_2026_02_14, D_2026_2_16, D_2026_02_30,
                        D_2026_03_20, D_soon}}

CheckOutInputs ==
    {Missing, IntVal(20260325), StrVal(D_2026_2_16), StrVal(D_2026_03_25)}

GuestInputs ==
    {Missing, IntVal(2), IntVal(10), IntVal(11), IntVal(15), NoneVal}

BookingIdInputs == {Missing, StrVal(BK001), StrVal(BK002)}

AmountInputs == {FloatVal(100), FloatVal(250)}

ToolCalls ==
    {[name |-> "book_hotel",
      input |-> Dict([hotel |-> StrVal(<<"Grand Hotel">>), check_in |-> ci,
                      check_out |-> co, guests |-> g])] :
        ci \in CheckInInputs, co \in CheckOutInputs, g \in GuestInputs}
    \cup
    {[name |-> n, input |-> Dict([booking_id |-> b])] :
        n \in {"confirm_booking", "cancel_booking"}, b \in BookingIdInputs}
    \cup
    {[name |-> "process_payment",
      input |-> Dict([amount |-> a, booking_id |-> b])] :
        a \in AmountInputs, b \in BookingIdInputs \ {Missing}}

(***************************************************************************)
(* The clock.                                                              *)
(***************************************************************************)
MaxTicks == 7
TickHours == 12
NowStart == Ordinal(2026, 2, 12) * HoursPerDay

(***************************************************************************)
(* The actions.                                                            *)
(***************************************************************************)
NotCalled ==
    [called |-> FALSE, calls |-> 0, raised |-> FALSE, evaluated |-> 0,
     passed |-> FALSE, violations |-> <<>>]

HookInit ==
    /\ stores = STATE_initial
    /\ now = NowStart
    /\ request = [name |-> "", input |-> EmptyDict]
    /\ event = [tool_use |-> request, cancel_tool |-> NoneVal]
    /\ phase = "IDLE"
    /\ ctx = NoCtx
    /\ verdict = NoVerdict
    /\ result = NoneVal
    /\ paid_log = {}
    /\ cancelled_log = {}

\* no tool of tools.py has been called
NoCall == [tool |-> "", args |-> EmptyDict, value |-> NoneVal]

ToolsInit ==
    /\ BOOKINGS = EmptyDict
    /\ returned = NoCall

\* no agent of the semantic tools demo has been built
NoAgent ==
    /\ registry = EmptyDict
    /\ dynamic_tools = EmptyDict
    /\ messages = <<>>
    /\ selected = <<>>
    /\ step = "off"

\* the slot of a call that is not in flight
NoRequest ==
    [request |-> [name |-> "", input |-> EmptyDict], phase |-> "IDLE",
     seen |-> STATE_initial, cancel_tool |-> NoneVal, result |-> NoneVal]

\* the calls that can be in flight at a time
MaxInFlight == 2

Slots == 1..MaxInFlight

\* no call is in flight
NoCalls == calls = [i \in Slots |-> NoRequest]

Init ==
    /\ HookInit
    /\ v_rules = <<>>
    /\ v_context = EmptyDict
    /\ v_returned = NotCalled
    /\ ToolsInit
    /\ NoAgent
    /\ NoCalls

\* The agent issues a tool call: the runtime builds the event for it
ToolCall ==
    /\ phase = "IDLE"
    /\ \E call \in ToolCalls :
        /\ request' = call
        /\ event' = [tool_use |-> call, cancel_tool |-> NoneVal]
    /\ phase' = "PENDING"
    /\ ctx' = NoCtx
    /\ verdict' = NoVerdict
    /\ result' = NoneVal
    /\ UNCHANGED <<stores, now, paid_log, cancelled_log, validate_vars,
                   tools_vars, swap_vars, conc_vars>>

\* Hook_validate, with a bug: the context builder takes the booking out of
\* the store (pop) where it should look it up (get)
Hook_validate_pops_booking ==
    /\ phase = "PENDING"
    /\ LET h == hook_validate(event, stores, now)
           p == event.tool_use.input
       IN  /\ phase' = h.phase
           /\ event' = h.event
           /\ ctx' = h.ctx
           /\ verdict' = h.verdict
           /\ IF /\ event.tool_use.name = "cancel_booking"
                 /\ "booking_id" \in DOMAIN p
                 /\ In(p["booking_id"], stores.bookings)
              THEN stores' = [stores EXCEPT !.bookings =
                                [k \in DOMAIN @ \ {p["booking_id"].s} |-> @[k]]]
              ELSE UNCHANGED stores
    /\ UNCHANGED <<now, request, result, paid_log, cancelled_log,
                   validate_vars, tools_vars, swap_vars, conc_vars>>

\* The BeforeToolCallEvent callback
Hook_validate ==
    /\ phase = "PENDING"
    /\ LET h == hook_validate(event, stores, now)
       IN  /\ phase' = h.phase
           /\ event' = h.event
           /\ ctx' = h.ctx
           /\ verdict' = h.verdict
    /\ UNCHANGED <<stores, now, request, result, paid_log, cancelled_log,
                   validate_vars, tools_vars, swap_vars, conc_vars>>

\* a tool runs when the hook set no cancel_tool on its event
Runs(name) ==
    /\ phase = "ALLOWED"
    /\ result = NoneVal
    /\ event.cancel_tool = NoneVal
    /\ event.tool_use.name = name

book_hotel ==
    /\ Runs("book_hotel")
    /\ LET p == event.tool_use.input
       IN  result' = StrVal(<<"SUCCESS: Booked ">> \o Format(p["hotel"])
                            \o <<" for ">>
                            \o Format(Get(p, "guests", IntVal(1)))
                            \o <<" guests, ">> \o Format(p["check_in"])
                            \o <<" to ">> \o Format(p["check_out"]))
    /\ UNCHANGED <<stores, now, request, event, phase, ctx, verdict,
                   paid_log, cancelled_log, validate_vars, tools_vars,
                   swap_vars, conc_vars>>

\* cancel_booking, with a bug: the booking and its payment are taken out
\* of the stores
cancel_booking_removes_booking ==
    /\ Runs("cancel_booking")
    /\ LET booking_id == event.tool_use.input["booking_id"]
       IN  /\ result' = StrVal(<<"SUCCESS: Cancelled booking ">>
                               \o Format(booking_id))
           /\ cancelled_log' = cancelled_log \cup {booking_id.s}
           /\ stores' =
                 [bookings |->
                     [k \in DOMAIN stores.bookings \ {booking_id.s} |->
                         stores.bookings[k]],
                  payments |->
                     [k \in DOMAIN stores.payments \ {booking_id.s} |->
                         stores.payments[k]]]
    /\ UNCHANGED <<now, request, event, phase, ctx, verdict, paid_log,
                   validate_vars, tools_vars, swap_vars, conc_vars>>

cancel_booking ==
    /\ Runs("cancel_booking")
    /\ LET booking_id == event.tool_use.input["booking_id"]
       IN  /\ result' = StrVal(<<"SUCCESS: Cancelled booking ">>
                               \o Format(booking_id))
           /\ cancelled_log' = cancelled_log \cup {booking_id.s}
    /\ UNCHANGED <<stores, now, request, event, phase, ctx, verdict,
                   paid_log, validate_vars, tools_vars, swap_vars,
                   conc_vars>>

\* process_payment, with a bug: the booking is not looked up
process_payment_no_lookup ==
    /\ Runs("process_payment")
    /\ LET amount == event.tool_use.input["amount"]
           booking_id == event.tool_use.input["booking_id"]
       IN  /\ stores' = [stores EXCEPT !.payments =
                            [k \in DOMAIN @ \cup {booking_id.s} |->
                                IF k = booking_id.s THEN amount ELSE @[k]]]
           /\ result' = StrVal(<<"SUCCESS: Processed $">>
                               \o Format(amount) \o <<" for ">>
                               \o Format(booking_id))
           /\ paid_log' = paid_log \cup {booking_id.s}
    /\ UNCHANGED <<now, request, event, phase, ctx, verdict, cancelled_log,
                   validate_vars, tools_vars, swap_vars, conc_vars>>

\* process_payment, with a bug: the payment is recorded before the booking
\* is looked up
process_payment_records_first ==
    /\ Runs("process_payment")
    /\ LET amount == event.tool_use.input["amount"]
           booking_id == event.tool_use.input["booking_id"]
       IN  /\ stores' = [stores EXCEPT !.payments =
                            [k \in DOMAIN @ \cup {booking_id.s} |->
                                IF k = booking_id.s THEN amount ELSE @[k]]]
           /\ IF ~In(booking_id, stores.bookings)
              THEN /\ result' = StrVal(<<"ERROR: Booking not found">>)
                   /\ UNCHANGED paid_log
              ELSE /\ result' = StrVal(<<"SUCCESS: Processed $">>
                                       \o Format(amount) \o <<" for ">>
                                       \o Format(booking_id))
                   /\ paid_log' = paid_log \cup {booking_id.s}
    /\ UNCHANGED <<now, request, event, phase, ctx, verdict, cancelled_log,
                   validate_vars, tools_vars, swap_vars, conc_vars>>

process_payment ==
    /\ Runs("process_payment")
    /\ LET amount == event.tool_use.input["amount"]
           booking_id == event.tool_use.input["booking_id"]
       IN  IF ~In(booking_id, stores.bookings)
           THEN /\ result' = StrVal(<<"ERROR: Booking not found">>)
                /\ UNCHANGED <<stores, paid_log>>
           ELSE /\ stores' = [stores EXCEPT !.payments =
                                 [k \in DOMAIN @ \cup {booking_id.s} |->
                                     IF k = booking_id.s THEN amount
                                     ELSE @[k]]]
                /\ result' = StrVal(<<"SUCCESS: Processed $">>
                                    \o Format(amount) \o <<" for ">>
                                    \o Format(booking_id))
                /\ paid_log' = paid_log \cup {booking_id.s}
    /\ UNCHANGED <<now, request, event, phase, ctx, verdict, cancelled_log,
                   validate_vars, tools_vars, swap_vars, conc_vars>>

confirm_booking ==
    /\ Runs("confirm_booking")
    /\ result' = StrVal(<<"SUCCESS: Confirmed ">>
                        \o Format(event.tool_use.input["booking_id"]))
    /\ UNCHANGED <<stores, now, request, event, phase, ctx, verdict,
                   paid_log, cancelled_log, validate_vars, tools_vars,
                   swap_vars, conc_vars>>

\* The tool of a cancelled event does not run: the call's result is the
\* message the hook put in cancel_tool
Cancelled ==
    /\ phase = "BLOCKED"
    /\ result = NoneVal
    /\ event.cancel_tool # NoneVal
    /\ result' = event.cancel_tool
    /\ UNCHANGED <<stores, now, request, event, phase, ctx, verdict,
                   paid_log, cancelled_log, validate_vars, tools_vars,
                   swap_vars, conc_vars>>

\* The call is over: the agent has its result, and the event, the context
\* and the verdict of the call are gone
Return ==
    /\ phase \in {"ALLOWED", "BLOCKED"}
    /\ result # NoneVal
    /\ request' = [name |-> "", input |-> EmptyDict]
    /\ event' = [tool_use |-> request', cancel_tool |-> NoneVal]
    /\ phase' = "IDLE"
    /\ ctx' = NoCtx
    /\ verdict' = NoVerdict
    /\ result' = NoneVal
    /\ UNCHANGED <<stores, now, paid_log, cancelled_log, validate_vars,
                   tools_vars, swap_vars, conc_vars>>

\* Time passes between two calls
Tick ==
    /\ phase = "IDLE"
    /\ now < NowStart + MaxTicks * TickHours
    /\ now' = now + TickHours
    /\ UNCHANGED <<stores, request, event, phase, ctx, verdict, result,
                   paid_log, cancelled_log, validate_vars, tools_vars,
                   swap_vars, conc_vars>>

Next ==
    \/ ToolCall
    \/ Hook_validate
    \/ book_hotel
    \/ cancel_booking
    \/ process_payment
    \/ confirm_booking
    \/ Cancelled
    \/ Return
    \/ Tick

Spec == Init /\ [][Next]_vars


(***************************************************************************)
(* validate on its own: any list of the declared rules, any context of     *)
(* the keys the conditions read.                                           *)
(***************************************************************************)
MaxRules == 3

ALL_RULES ==
    {BOOKING_RULES[i] : i \in DOMAIN BOOKING_RULES}
    \cup {CONFIRMATION_RULES[i] : i \in DOMAIN CONFIRMATION_RULES}
    \cup {CANCELLATION_RULES[i] : i \in DOMAIN CANCELLATION_RULES}

RuleLists == UNION {[1..n -> ALL_RULES] : n \in 0..MaxRules}

Contexts ==
    {EmptyDict, [booking_id |-> NoneVal]} \cup
    {Dict([check_in |-> ci, check_out |-> co, guests |-> g,
           days_until_checkin |-> d, payment_verified |-> pv,
           booking_id |-> b]) :
        ci \in {Missing, DateTimeVal(Strptime(StrVal(D_2026_03_20)).h)},
        co \in {DateTimeVal(Strptime(StrVal(D_2026_2_16)).h),
                DateTimeVal(Strptime(StrVal(D_2026_03_25)).h)},
        g \in {Missing, IntVal(15), NoneVal},
        d \in {Missing, IntVal(1), IntVal(2)},
        pv \in {Missing, BoolVal(TRUE)},
        b \in {Missing, StrVal(BK001)}}

ValidateInit ==
    /\ HookInit
    /\ v_rules \in RuleLists
    /\ v_context \in Contexts
    /\ v_returned = NotCalled
    /\ ToolsInit
    /\ NoAgent
    /\ NoCalls

\* the calls of validate made on one pair of arguments
MaxCalls == 2

\* CallValidate, with a bug: the conditions take their keys out of the
\* context (pop) where they should read them (get)
CallValidate_consumes_context ==
    /\ v_returned.calls < MaxCalls
    /\ LET v == validate(v_rules, v_context)
       IN  v_returned' = [called |-> TRUE, calls |-> v_returned.calls + 1,
                          raised |-> v.raised, evaluated |-> v.evaluated,
                          passed |-> v.passed, violations |-> v.violations]
    /\ v_context' = EmptyDict
    /\ UNCHANGED <<hook_vars, v_rules, tools_vars, swap_vars, conc_vars>>

\* validate(v_rules, v_context) is called, for the first time or again, and
\* what it returns (or that it raised) is recorded
CallValidate ==
    /\ v_returned.calls < MaxCalls
    /\ LET v == validate(v_rules, v_context)
       IN  v_returned' = [called |-> TRUE, calls |-> v_returned.calls + 1,
                          raised |-> v.raised, evaluated |-> v.evaluated,
                          passed |-> v.passed, violations |-> v.violations]
    /\ UNCHANGED <<hook_vars, v_rules, v_context, tools_vars, swap_vars,
                   conc_vars>>

ValidateNext == CallValidate

SpecValidate == ValidateInit /\ [][ValidateNext]_vars


(***************************************************************************)
(* Properties of validate.                                                 *)
(***************************************************************************)
\* the positions of the rules whose condition is false on the context
FailingRules ==
    {i \in 1..Len(v_rules) : ~Condition(v_rules[i], v_context).truth}

SomeConditionRaises ==
    \E i \in 1..Len(v_rules) : Condition(v_rules[i], v_context).raised

\* the k-th smallest member of a set of numbers
KthOf(S, k) == CHOOSE i \in S : Cardinality({j \in S : j < i}) = k - 1

\* C2: a call of validate that returns has evaluated every rule of the list
\* and returns as violations exactly the messages of the rules whose
\* condition is false on the context, in the order of the list; it returns
\* unless a condition raises.
C2_ViolationsAreTheFailingRulesInOrder ==
    v_returned.called =>
        /\ v_returned.raised <=> SomeConditionRaises
        /\ ~v_returned.raised =>
            /\ v_returned.evaluated = Len(v_rules)
            /\ Len(v_returned.violations) = Cardinality(FailingRules)
            /\ \A k \in 1..Len(v_returned.violations) :
                  v_returned.violations[k] =
                      v_rules[KthOf(FailingRules, k)].message

\* validate returned for a list whose first and last rule fail and whose
\* middle rule passes
C2_Witness ==
    /\ v_returned.called
    /\ ~v_returned.raised
    /\ Len(v_rules) = 3
    /\ FailingRules = {1, 3}
    /\ v_rules[1] # v_rules[3]

\* C3: in every Verdict validate returns, passed is true if and only if the
\* violations list is empty.
C3_PassedIffNoViolations ==
    (v_returned.called /\ ~v_returned.raised) =>
        (v_returned.passed <=> v_returned.violations = <<>>)

\* validate returned a Verdict with exactly one violation for a list of
\* several rules
C3_Witness ==
    /\ v_returned.called
    /\ ~v_returned.raised
    /\ Len(v_rules) >= 2
    /\ Len(v_returned.violations) = 1
    /\ ~v_returned.passed


(***************************************************************************)
(* Properties of the hook and the tools.                                   *)
(***************************************************************************)
\* the hook has run for the call under way
Decided == phase \notin {"IDLE", "PENDING"}

Delivered == result # NoneVal

Guarded == request.name \in {"book_hotel", "confirm_booking", "cancel_booking"}

HasBookingId == "booking_id" \in DOMAIN request.input

\* the members of a sequence
Range(seq) == {seq[i] : i \in DOMAIN seq}

\* the result of a tool that ran
ToolResult(head) == result.t = "str" /\ result.s # <<>> /\ result.s[1] = head

RanTool ==
    \/ ToolResult("SUCCESS: Booked ")
    \/ ToolResult("SUCCESS: Cancelled booking ")
    \/ ToolResult("SUCCESS: Confirmed ")

\* the calendar dates among the strings the calls and the stores carry, as
\* <<year, month, day>>: what a reader takes each string to say
CalendarDates ==
    (D_2026_02_14 :> <<2026, 2, 14>>) @@ (D_2026_02_15 :> <<2026, 2, 15>>)
    @@ (D_2026_2_16 :> <<2026, 2, 16>>) @@ (D_2026_03_20 :> <<2026, 3, 20>>)
    @@ (D_2026_03_25 :> <<2026, 3, 25>>)

IsDate(v) == v.t = "str" /\ v.s \in DOMAIN CalendarDates

\* the hour at which the day a date string names starts
MidnightOf(v) ==
    LET d == CalendarDates[v.s]
    IN  Ordinal(d[1], d[2], d[3]) * HoursPerDay

\* C1: every intercepted call to a guarded operation is validated once and
\* ends ALLOWED or BLOCKED; the tool's effect occurs if and only if it ended
\* ALLOWED, and an ALLOWED call reaches the tool as the agent issued it.
C1_GuardedCallEndsAllowedOrBlocked ==
    (Guarded /\ Decided) =>
        /\ phase \in {"ALLOWED", "BLOCKED"}
        /\ verdict.computed
        /\ verdict.evaluated = Len(self_rules[request.name])
        /\ phase = "ALLOWED" <=> verdict.passed
        /\ phase = "ALLOWED" =>
              event = [tool_use |-> request, cancel_tool |-> NoneVal]
        /\ Delivered => (RanTool <=> phase = "ALLOWED")

\* C4: the hook sets a rejection if and only if the Verdict has
\* passed = false, and the rejection is "BLOCKED: " followed by the
\* violation messages, in the order of the rules, joined with ", ".
C4_RejectionIsBlockedPrefixAndJoinedMessages ==
    LET rej == event.cancel_tool
        failing == IF Guarded /\ ctx.built
                   THEN {i \in 1..Len(self_rules[request.name]) :
                            ~Condition(self_rules[request.name][i],
                                       ctx.d).truth}
                   ELSE {}
    IN  /\ rej # NoneVal <=> (verdict.computed /\ ~verdict.passed)
        /\ rej # NoneVal =>
            /\ rej.t = "str"
            /\ rej.s[1] = "BLOCKED: "
            /\ Len(rej.s) = 2 * Cardinality(failing)
            /\ \A k \in 1..Cardinality(failing) :
                /\ rej.s[2 * k] =
                      self_rules[request.name][KthOf(failing, k)].message
                /\ k > 1 => rej.s[2 * k - 1] = ", "

\* a call was rejected for two violations
C4_Witness ==
    /\ phase = "BLOCKED"
    /\ Len(verdict.violations) = 2
    /\ result = event.cancel_tool
    /\ result = StrVal(<<"BLOCKED: ", verdict.violations[1], ", ",
                         verdict.violations[2]>>)

\* C5: for process_payment, which has no rules, the hook builds no context
\* and sets no rejection, and the tool runs on the call as issued: its own
\* result is the call's result.
C5_UnguardedCallPassesThrough ==
    (request.name = "process_payment" /\ Decided) =>
        /\ phase = "ALLOWED"
        /\ ~ctx.built
        /\ ~verdict.computed
        /\ event = [tool_use |-> request, cancel_tool |-> NoneVal]
        /\ ~Delivered => ENABLED process_payment
        /\ Delivered =>
              IF request.input["booking_id"].s \in DOMAIN stores.bookings
              THEN /\ result =
                        StrVal(<<"SUCCESS: Processed $">>
                               \o Format(request.input["amount"])
                               \o <<" for ">>
                               \o request.input["booking_id"].s)
                   /\ stores.payments[request.input["booking_id"].s] =
                          request.input["amount"]
              ELSE result = StrVal(<<"ERROR: Booking not found">>)

\* a payment went through for a booking that had a payment recorded of
\* another amount
C5_Witness ==
    /\ request.name = "process_payment"
    /\ Delivered
    /\ ToolResult("SUCCESS: Processed $")
    /\ request.input["amount"] = FloatVal(250)

\* C6: the hook's step, context building included, never changes the
\* stores, and no step of a call that ends BLOCKED does.
C6_BlockedCallLeavesStores ==
    [][(phase = "PENDING" \/ phase = "BLOCKED" \/ phase' = "BLOCKED")
          => stores' = stores]_vars

\* a call was rejected when the stores held a payment
C6_Witness ==
    /\ phase = "BLOCKED"
    /\ result = event.cancel_tool
    /\ request.name = "cancel_booking"
    /\ HasBookingId
    /\ In(request.input["booking_id"], stores.bookings)
    /\ DOMAIN stores.payments # {}

\* what C7 asks of a book_hotel request at the time of the call
BookingAcceptable ==
    LET p == request.input
    IN  /\ "check_in" \in DOMAIN p /\ IsDate(p["check_in"])
        /\ "check_out" \in DOMAIN p /\ IsDate(p["check_out"])
        /\ MidnightOf(p["check_in"]) < MidnightOf(p["check_out"])
        /\ \/ "guests" \notin DOMAIN p
           \/ p["guests"].t = "int" /\ p["guests"].n <= 10
        /\ MidnightOf(p["check_in"]) - now >= HoursPerDay

\* C7: a book_hotel request is ALLOWED (passed, no violations, the tool
\* runs and returns a SUCCESS result) if and only if both dates parse,
\* check-in is strictly before check-out, guests (1 when not given) is at
\* most 10, and check-in is at least one whole day away.
C7_BookingAllowedIffAcceptable ==
    (request.name = "book_hotel" /\ Decided) =>
        /\ phase = "ALLOWED" <=> BookingAcceptable
        /\ phase = "ALLOWED" =>
            /\ verdict.passed
            /\ verdict.violations = <<>>
            /\ ~Delivered => ENABLED book_hotel
            /\ Delivered => ToolResult("SUCCESS: Booked ")
        /\ phase # "ALLOWED" => ~RanTool

\* a booking for ten guests, checking in exactly one whole day from now,
\* was made
C7_Witness ==
    /\ request.name = "book_hotel"
    /\ phase = "ALLOWED"
    /\ ToolResult("SUCCESS: Booked ")
    /\ Get(request.input, "guests", NoneVal) = IntVal(10)
    /\ Get(ctx.d, "days_until_checkin", NoneVal) = IntVal(1)

\* C8: a confirm_booking request for a booking id without an entry in the
\* payments store is BLOCKED with the one violation "Payment must be
\* verified before confirmation"; for an id with an entry it is ALLOWED.
C8_ConfirmationNeedsPayment ==
    (request.name = "confirm_booking" /\ HasBookingId /\ Decided) =>
        IF request.input["booking_id"].s \in DOMAIN stores.payments
        THEN phase = "ALLOWED" /\ verdict.passed
        ELSE /\ phase = "BLOCKED"
             /\ ~verdict.passed
             /\ verdict.violations =
                   <<"Payment must be verified before confirmation">>

\* a paid booking was confirmed
C8_Witness ==
    /\ request.name = "confirm_booking"
    /\ phase = "ALLOWED"
    /\ ToolResult("SUCCESS: Confirmed ")
    /\ request.input["booking_id"].s \in DOMAIN stores.payments

\* the hours from now to the check-in of the stored booking the call names
HoursToCheckIn ==
    MidnightOf(stores.bookings[request.input["booking_id"].s].check_in) - now

\* C9: a cancel_booking request for a stored booking is ALLOWED if and only
\* if check-in is at least 2 whole days away; otherwise it is BLOCKED and
\* "Cannot cancel within 48 hours of check-in" is among the violations.
C9_CancellationWindow ==
    (/\ request.name = "cancel_booking"
     /\ HasBookingId
     /\ In(request.input["booking_id"], stores.bookings)
     /\ Decided) =>
        /\ phase = "ALLOWED" <=> HoursToCheckIn >= 2 * HoursPerDay
        /\ HoursToCheckIn < 2 * HoursPerDay =>
            /\ phase = "BLOCKED"
            /\ "Cannot cancel within 48 hours of check-in"
                  \in Range(verdict.violations)

\* a cancellation was rejected with check-in one whole day away
C9_Witness ==
    /\ request.name = "cancel_booking"
    /\ phase = "BLOCKED"
    /\ result = event.cancel_tool
    /\ ctx.d = [booking_id |-> StrVal(BK001),
                days_until_checkin |-> IntVal(1)]

\* C10: a cancel_booking request for an id that is not in the bookings
\* store gives the context booking_id = None and is BLOCKED with "No
\* booking found to cancel" among the violations; the tool does not run.
C10_UnknownBookingNotCancelled ==
    (/\ request.name = "cancel_booking"
     /\ HasBookingId
     /\ ~In(request.input["booking_id"], stores.bookings)
     /\ Decided) =>
        /\ ctx = [built |-> TRUE, d |-> [booking_id |-> NoneVal]]
        /\ phase = "BLOCKED"
        /\ "No booking found to cancel" \in Range(verdict.violations)
        /\ ~ENABLED cancel_booking
        /\ ~RanTool

\* the cancellation of an unknown booking was rejected
C10_Witness ==
    /\ request.name = "cancel_booking"
    /\ request.input = [booking_id |-> StrVal(BK002)]
    /\ phase = "BLOCKED"
    /\ result = event.cancel_tool

\* the dates of the book_hotel request under way are calendar dates
DatesParse ==
    LET p == request.input
    IN  /\ "check_in" \in DOMAIN p /\ IsDate(p["check_in"])
        /\ "check_out" \in DOMAIN p /\ IsDate(p["check_out"])

\* C11: a book_hotel request with check-in before check-out, check-in at
\* least one whole day away and a guest count above 10 is BLOCKED with
\* violations exactly <<"Maximum 10 guests per booking">>, and the rejection
\* is "BLOCKED: Maximum 10 guests per booking".
C11_TooManyGuestsIsTheOnlyViolation ==
    LET p == request.input
    IN  (/\ request.name = "book_hotel"
         /\ Decided
         /\ DatesParse
         /\ MidnightOf(p["check_in"]) < MidnightOf(p["check_out"])
         /\ MidnightOf(p["check_in"]) - now >= HoursPerDay
         /\ "guests" \in DOMAIN p
         /\ p["guests"].t = "int"
         /\ p["guests"].n > 10) =>
            /\ phase = "BLOCKED"
            /\ verdict.computed
            /\ ~verdict.passed
            /\ verdict.violations = <<"Maximum 10 guests per booking">>
            /\ event.cancel_tool =
                  StrVal(<<"BLOCKED: ", "Maximum 10 guests per booking">>)
            /\ Delivered => result = event.cancel_tool

\* the booking of 2026-03-20 to 2026-03-25 for 15 guests was rejected for
\* the guest count alone
C11_Witness ==
    /\ request.name = "book_hotel"
    /\ request.input = [hotel |-> StrVal(<<"Grand Hotel">>),
                        check_in |-> StrVal(D_2026_03_20),
                        check_out |-> StrVal(D_2026_03_25),
                        guests |-> IntVal(15)]
    /\ phase = "BLOCKED"
    /\ result = StrVal(<<"BLOCKED: ", "Maximum 10 guests per booking">>)

\* C12: for a book_hotel request whose check-in or check-out is missing or
\* does not parse, the context builder returns a context (it does not
\* raise) on which valid_dates and advance_booking are false, so the call is
\* BLOCKED with both of their messages and the tool does not run.
C12_UnparseableDateFailsClosed ==
    (request.name = "book_hotel" /\ Decided /\ ~DatesParse) =>
        /\ ctx.built
        /\ valid_dates_check(ctx.d) = Returned(FALSE)
        /\ advance_booking_check(ctx.d) = Returned(FALSE)
        /\ phase = "BLOCKED"
        /\ verdict.computed
        /\ "Check-in must be before check-out" \in Range(verdict.violations)
        /\ "Must book at least 1 day in advance"
              \in Range(verdict.violations)
        /\ event.cancel_tool # NoneVal
        /\ ~ENABLED book_hotel
        /\ ~RanTool

\* a booking with a check-in of February 30th was rejected
C12_Witness ==
    /\ request.name = "book_hotel"
    /\ Get(request.input, "check_in", NoneVal) = StrVal(D_2026_02_30)
    /\ Get(request.input, "check_out", NoneVal) = StrVal(D_2026_03_25)
    /\ phase = "BLOCKED"
    /\ ctx = [built |-> TRUE, d |-> EmptyDict]
    /\ result = event.cancel_tool

\* C13: for a guarded operation, whatever the parameters, the context
\* builder does not raise: unless a rule predicate raised on the context it
\* built, the hook ends ALLOWED or BLOCKED with a rejection string.
C13_ContextBuildNeverRaises ==
    (Guarded /\ Decided /\ ~(ctx.built /\ phase = "RAISED")) =>
        /\ ctx.built
        /\ phase \in {"ALLOWED", "BLOCKED"}
        /\ phase = "BLOCKED" => event.cancel_tool.t = "str"

\* a rule predicate of the call under way raises on the context the hook
\* built
PredicateRaises ==
    /\ Guarded
    /\ ctx.built
    /\ \E i \in 1..Len(self_rules[request.name]) :
          Condition(self_rules[request.name][i], ctx.d).raised

\* C15: when a rule predicate raises on the context the hook built, the
\* exception leaves validate and the hook: no Verdict is computed, no
\* rejection is set, the tool does not run and the run ends there.
C15_RaisingPredicatePropagates ==
    (Decided /\ PredicateRaises) =>
        /\ phase = "RAISED"
        /\ ~verdict.computed
        /\ event.cancel_tool = NoneVal
        /\ result = NoneVal
        /\ ~ENABLED Next

\* max_guests raised on guests = None of a booking with good dates
C15_Witness ==
    /\ request.name = "book_hotel"
    /\ phase = "RAISED"
    /\ ctx.built
    /\ Get(ctx.d, "guests", IntVal(1)) = NoneVal
    /\ Condition(BOOKING_RULES[2], ctx.d).raised

\* the keys of the context the condition of a rule reads
KeysRead(r) ==
    CASE r.condition = "valid_dates_check" -> {"check_in", "check_out"}
      [] r.condition = "max_guests_check" -> {"guests"}
      [] r.condition = "advance_booking_check" -> {"days_until_checkin"}
      [] r.condition = "payment_verified_check" -> {"payment_verified"}
      [] r.condition = "cancellation_window_check" -> {"days_until_checkin"}
      [] r.condition = "booking_exists_check" -> {"booking_id"}

\* C14: each of the six rule predicates returns false, without raising, on
\* a context that lacks a key it reads, the empty context included.
C14_PredicatesFailOnMissingKey ==
    \A i \in 1..Len(v_rules) :
        KeysRead(v_rules[i]) \ DOMAIN v_context # {} =>
            Condition(v_rules[i], v_context) = Returned(FALSE)

C17_AllTrueOrExactlyOneFalse ==
    (v_returned.called /\ ~SomeConditionRaises) =>
        /\ ~v_returned.raised
        /\ FailingRules = {} =>
              v_returned.passed /\ v_returned.violations = <<>>
        /\ Cardinality(FailingRules) = 1 =>
              /\ ~v_returned.passed
              /\ v_returned.violations =
                    <<v_rules[CHOOSE i \in FailingRules : TRUE].message>>

\* validate returned for three rules of which the middle one alone fails
C17_Witness ==
    /\ v_returned.called
    /\ ~v_returned.raised
    /\ Len(v_rules) = 3
    /\ FailingRules = {2}

\* validate returned for three rules that all hold
C17_WitnessAllTrue ==
    /\ v_returned.called
    /\ Len(v_rules) = 3
    /\ v_returned.passed

\* C18: a confirm_booking call for a booking id ends ALLOWED only if a
\* process_payment call for that id returned SUCCESS earlier in the run;
\* a confirm issued before any such payment is BLOCKED and the tool does
\* not run.
C18_PaymentPrecedesConfirmation ==
    (request.name = "confirm_booking" /\ HasBookingId /\ Decided) =>
        LET b == request.input["booking_id"].s
        IN  /\ phase = "ALLOWED" => b \in paid_log
            /\ b \notin paid_log =>
                /\ phase = "BLOCKED"
                /\ ~ENABLED confirm_booking
                /\ ~RanTool

\* a booking was confirmed after its payment had gone through
C18_Witness ==
    /\ request.name = "confirm_booking"
    /\ request.input = [booking_id |-> StrVal(BK001)]
    /\ phase = "ALLOWED"
    /\ ToolResult("SUCCESS: Confirmed ")
    /\ BK001 \in paid_log

\* a confirmation was rejected while a payment for another id had been
\* refused
C18_WitnessBlocked ==
    /\ request.name = "confirm_booking"
    /\ phase = "BLOCKED"
    /\ result = event.cancel_tool
    /\ paid_log = {}

(***************************************************************************)
(* 03-multiagent-demo/tools.py: the hotel database, the bookings and the   *)
(* three tools the agents of the demo call.                                *)
(***************************************************************************)
HOTELS ==
    ("grand_hotel" :>
        [price |-> 200, available |-> TRUE, max_guests |-> 4])
    @@ ("budget_inn" :>
        [price |-> 80, available |-> TRUE, max_guests |-> 2])
    @@ ("luxury_resort" :>
        [price |-> 500, available |-> FALSE, max_guests |-> 6])

\* HOTELS.items(): the keys in the order of the dict literal
HOTELS_keys == <<"grand_hotel", "budget_inn", "luxury_resort">>

\* ZeroPad3, with a bug: the number is not padded (f"{n}")
ZeroPad3_unpadded(n) == Decimal(n)

\* f"{n:03d}" of a number n >= 0
ZeroPad3(n) ==
    LET d == Decimal(n)
    IN  IF Len(d) >= 3 THEN d ELSE [i \in 1..(3 - Len(d)) |-> "0"] \o d

\* repr of a list of strings, each given by its pieces
RECURSIVE ReprItems(_)
ReprItems(items) ==
    IF items = <<>> THEN <<>>
    ELSE <<"'">> \o items[1] \o <<"'">>
         \o (IF Len(items) = 1 THEN <<>> ELSE <<", ">>)
         \o ReprItems(Tail(items))

\* search_hotels(location, guests): the string it returns
tools_search_hotels(location, guests) ==
    LET keys == SelectSeq(HOTELS_keys,
                          LAMBDA k : /\ HOTELS[k].available
                                     /\ HOTELS[k].max_guests >= guests)
        available ==
            [i \in DOMAIN keys |->
                <<keys[i], ": $">> \o Decimal(HOTELS[keys[i]].price)
                \o <<"/night, max ">> \o Decimal(HOTELS[keys[i]].max_guests)
                \o <<" guests">>]
    IN  IF available # <<>>
        THEN StrVal(<<"Hotels in ", location, ": ", "[">>
                    \o ReprItems(available) \o <<"]">>)
        ELSE StrVal(<<"No hotels available">>)

\* tools_book_hotel, with a bug: the availability of the hotel is not
\* looked at
tools_book_hotel_any_known_hotel(hotel_id, guest_name, nights, bookings) ==
    IF hotel_id \notin DOMAIN HOTELS
    THEN [bookings |-> bookings,
          ret |-> StrVal(<<"ERROR: Hotel '", hotel_id, "' not found">>)]
    ELSE LET total == HOTELS[hotel_id].price * nights
             booking_id ==
                 <<"B", "K">> \o ZeroPad3(Cardinality(DOMAIN bookings) + 1)
         IN  [bookings |->
                 [k \in DOMAIN bookings \cup {booking_id} |->
                     IF k = booking_id
                     THEN [hotel |-> hotel_id, guest |-> guest_name,
                           nights |-> nights, total |-> total]
                     ELSE bookings[k]],
              ret |-> StrVal(<<"SUCCESS: Booking ">> \o booking_id
                             \o <<" confirmed. ", hotel_id, " for ">>
                             \o Decimal(nights)
                             \o <<" nights. Total: $">> \o Decimal(total))]

\* book_hotel(hotel_id, guest_name, nights) on the bookings made so far:
\* the bookings after the call and the string it returns
tools_book_hotel(hotel_id, guest_name, nights, bookings) ==
    IF hotel_id \notin DOMAIN HOTELS
    THEN [bookings |-> bookings,
          ret |-> StrVal(<<"ERROR: Hotel '", hotel_id, "' not found">>)]
    ELSE IF ~HOTELS[hotel_id].available
    THEN [bookings |-> bookings,
          ret |-> StrVal(<<"ERROR: ", hotel_id, " is not available">>)]
    ELSE LET total == HOTELS[hotel_id].price * nights
             booking_id ==
                 <<"B", "K">> \o ZeroPad3(Cardinality(DOMAIN bookings) + 1)
         IN  [bookings |->
                 [k \in DOMAIN bookings \cup {booking_id} |->
                     IF k = booking_id
                     THEN [hotel |-> hotel_id, guest |-> guest_name,
                           nights |-> nights, total |-> total]
                     ELSE bookings[k]],
              ret |-> StrVal(<<"SUCCESS: Booking ">> \o booking_id
                             \o <<" confirmed. ", hotel_id, " for ">>
                             \o Decimal(nights)
                             \o <<" nights. Total: $">> \o Decimal(total))]

\* get_booking(booking_id): the string it returns
tools_get_booking(booking_id, bookings) ==
    IF booking_id \notin DOMAIN bookings
    THEN StrVal(<<"ERROR: Booking '">> \o booking_id \o <<"' not found">>)
    ELSE LET b == bookings[booking_id]
         IN  StrVal(<<"Booking ">> \o booking_id
                    \o <<": ", b.hotel, " for ", b.guest, ", ">>
                    \o Decimal(b.nights) \o <<" nights, $">>
                    \o Decimal(b.total))

\* what the agents pass to the tools
HotelIdInputs ==
    {"grand_hotel", "budget_inn", "luxury_resort", "the_ritz_paris"}

GuestNameInputs == {"John", "Sarah"}

NightsInputs == {2, 3}

GuestCountInputs == {1, 3, 5}

\* the bookings a run makes
MaxBookings == 3

Call_search_hotels ==
    /\ \E g \in GuestCountInputs :
          returned' = [tool |-> "search_hotels",
                       args |-> [location |-> "Paris", guests |-> g],
                       value |-> tools_search_hotels("Paris", g)]
    /\ UNCHANGED <<BOOKINGS, hook_vars, validate_vars, swap_vars, conc_vars>>

Call_book_hotel ==
    /\ \E h \in HotelIdInputs, g \in GuestNameInputs, n \in NightsInputs :
          LET r == tools_book_hotel(h, g, n, BOOKINGS)
          IN  /\ r.bookings # BOOKINGS =>
                    Cardinality(DOMAIN BOOKINGS) < MaxBookings
              /\ BOOKINGS' = r.bookings
              /\ returned' = [tool |-> "book_hotel",
                              args |-> [hotel_id |-> h, guest_name |-> g,
                                        nights |-> n],
                              value |-> r.ret]
    /\ UNCHANGED <<hook_vars, validate_vars, swap_vars, conc_vars>>

Call_get_booking ==
    /\ \E b \in {BK001, BK002, <<"B", "K", "1">>} :
          returned' = [tool |-> "get_booking",
                       args |-> [booking_id |-> b],
                       value |-> tools_get_booking(b, BOOKINGS)]
    /\ UNCHANGED <<BOOKINGS, hook_vars, validate_vars, swap_vars, conc_vars>>

SpecToolsInit ==
    /\ HookInit
    /\ v_rules = <<>>
    /\ v_context = EmptyDict
    /\ v_returned = NotCalled
    /\ ToolsInit
    /\ NoAgent
    /\ NoCalls

ToolsNext ==
    \/ Call_search_hotels
    \/ Call_book_hotel
    \/ Call_get_booking

SpecTools == SpecToolsInit /\ [][ToolsNext]_vars

\* the string a tool of tools.py returned starts with this literal
Returns(head) == returned.value.s # <<>> /\ returned.value.s[1] = head

\* the hotel exists and is available
Bookable(hotel_id) ==
    \E i \in DOMAIN HOTELS_keys :
        HOTELS_keys[i] = hotel_id /\ HOTELS[hotel_id].available

\* C19: book_hotel for a hotel that is not in HOTELS or is not available
\* returns an ERROR string and leaves BOOKINGS as it was; a step adds a
\* booking only when it is a book_hotel call for a hotel that exists and is
\* available, and that call returns a SUCCESS string and adds one booking.
C19_FailedBookingLeavesBookings ==
    [][LET h == returned'.args.hotel_id
       IN  /\ BOOKINGS' # BOOKINGS =>
                returned'.tool = "book_hotel" /\ Bookable(h)
           /\ returned'.tool = "book_hotel" =>
                IF Bookable(h)
                THEN /\ returned'.value.s[1] = "SUCCESS: Booking "
                     /\ Cardinality(DOMAIN BOOKINGS') =
                           Cardinality(DOMAIN BOOKINGS) + 1
                     /\ \A k \in DOMAIN BOOKINGS : BOOKINGS'[k] = BOOKINGS[k]
                     /\ \E k \in DOMAIN BOOKINGS' \ DOMAIN BOOKINGS :
                           BOOKINGS'[k].hotel = h
                ELSE /\ returned'.value.s[1] \in {"ERROR: Hotel '", "ERROR: "}
                     /\ BOOKINGS' = BOOKINGS]_vars

\* the_ritz_paris was refused after a booking had been made, and the
\* booking is all there is
C19_Witness ==
    /\ returned.tool = "book_hotel"
    /\ returned.args.hotel_id = "the_ritz_paris"
    /\ Returns("ERROR: Hotel '")
    /\ DOMAIN BOOKINGS = {BK001}

\* luxury_resort, which is not available, was refused
C19_WitnessUnavailable ==
    /\ returned.tool = "book_hotel"
    /\ returned.value =
          StrVal(<<"ERROR: ", "luxury_resort", " is not available">>)
    /\ DOMAIN BOOKINGS = {BK001, BK002}

(***************************************************************************)
(* 02-semantic-tools-demo: swap_tools of registry.py on the memory agent   *)
(* of token_comparison_app.py, which keeps one agent over all queries and  *)
(* swaps its tools before each.                                            *)
(***************************************************************************)
\* a tool, as the registry of the agent sees it
Tool(name, dynamic) == [tool_name |-> name, is_dynamic |-> dynamic]

\* the tools a caller hands to the agent: three tools of enhanced_tools.py
\* and one tool loaded at run time
ToolInputs ==
    {Tool("get_weather", FALSE), Tool("search_flights", FALSE),
     Tool("book_hotel", FALSE), Tool("get_details", TRUE)}

\* the longest list of tools handed over
MaxTools == 3

\* the queries the agent is asked
MaxQueries == 3

\* lists of different tools, as search_tools returns them
ToolLists ==
    {l \in UNION {[1..n -> ToolInputs] : n \in 0..MaxTools} :
        \A i, j \in DOMAIN l : i # j => l[i] # l[j]}

\* d[k] = v on a dict
Put(d, k, v) == [x \in DOMAIN d \cup {k} |-> IF x = k THEN v ELSE d[x]]

\* reg.register_tool(t) of the agent's ToolRegistry, for a tool whose name
\* is not registered: the tool is entered under its name, and among the
\* dynamic tools when it is one
register_tool(reg, t) ==
    [registry |-> Put(reg.registry, t.tool_name, t),
     dynamic_tools |-> IF t.is_dynamic
                       THEN Put(reg.dynamic_tools, t.tool_name, t)
                       ELSE reg.dynamic_tools]

\* for t in tools: reg.register_tool(t)
RECURSIVE RegisterAll(_, _)
RegisterAll(reg, tools) ==
    IF tools = <<>> THEN reg
    ELSE RegisterAll(register_tool(reg, tools[1]), Tail(tools))

\* swap_tools, with a bug: reg.registry.clear() is left out
swap_tools_keeps_registry(reg, new_tools) ==
    RegisterAll([registry |-> reg.registry, dynamic_tools |-> EmptyDict],
                new_tools)

\* swap_tools(agent, new_tools) on the registry reg of the agent
swap_tools(reg, new_tools) ==
    RegisterAll([registry |-> EmptyDict, dynamic_tools |-> EmptyDict],
                new_tools)

\* memory_agent = Agent(tools=initial_tools, ...), the loop not yet entered
SwapInit ==
    /\ HookInit
    /\ v_rules = <<>>
    /\ v_context = EmptyDict
    /\ v_returned = NotCalled
    /\ ToolsInit
    /\ \E initial_tools \in ToolLists :
          LET reg == RegisterAll([registry |-> EmptyDict,
                                  dynamic_tools |-> EmptyDict],
                                 initial_tools)
          IN  /\ registry = reg.registry
              /\ dynamic_tools = reg.dynamic_tools
    /\ messages = <<>>
    /\ selected = <<>>
    /\ step = "search"
    /\ NoCalls

\* selected = search_tools(query, top_k=3), for the next query
Search ==
    /\ step = "search"
    /\ Len(messages) < 2 * MaxQueries
    /\ selected' \in ToolLists
    /\ step' = "swap"
    /\ UNCHANGED <<registry, dynamic_tools, messages, hook_vars,
                   validate_vars, tools_vars, conc_vars>>

\* swap_tools(memory_agent, selected)
Swap ==
    /\ step = "swap"
    /\ LET reg == swap_tools([registry |-> registry,
                              dynamic_tools |-> dynamic_tools], selected)
       IN  /\ registry' = reg.registry
           /\ dynamic_tools' = reg.dynamic_tools
    /\ step' = "call"
    /\ UNCHANGED <<messages, selected, hook_vars, validate_vars, tools_vars,
                   conc_vars>>

\* run_query_with_tokens(memory_agent, query): agent(query) adds the query
\* and the answer to the conversation; the answer is given with the tools
\* registered at that time
RunQuery ==
    /\ step = "call"
    /\ messages' = messages
                   \o << [role |-> "user", tools |-> {}],
                         [role |-> "assistant", tools |-> DOMAIN registry] >>
    /\ step' = "search"
    /\ UNCHANGED <<registry, dynamic_tools, selected, hook_vars,
                   validate_vars, tools_vars, conc_vars>>

SwapNext ==
    \/ Search
    \/ Swap
    \/ RunQuery

SpecSwap == SwapInit /\ [][SwapNext]_vars

\* the tools of a list, by name
ByName(tools) ==
    [n \in {tools[i].tool_name : i \in DOMAIN tools} |->
        CHOOSE t \in Range(tools) : t.tool_name = n]

\* C20: a swap_tools step leaves in the registry exactly the tools of
\* new_tools (and among the dynamic tools exactly the dynamic ones of
\* new_tools) and leaves the messages as they were; no other step changes
\* the registry, so the tools registered are those of the latest swap.
C20_SwapReplacesToolsKeepsMessages ==
    [][IF step = "swap"
       THEN /\ registry' = ByName(selected)
            /\ dynamic_tools' =
                  ByName(SelectSeq(selected, LAMBDA t : t.is_dynamic))
            /\ messages' = messages
       ELSE /\ registry' = registry
            /\ dynamic_tools' = dynamic_tools]_vars

\* after an answer given with three tools, one of them dynamic, a swap left
\* one other tool alone in the registry, and the conversation is still there
C20_Witness ==
    /\ step = "call"
    /\ Len(messages) = 2
    /\ messages[2].tools = {"get_weather", "search_flights", "get_details"}
    /\ DOMAIN registry = {"book_hotel"}
    /\ dynamic_tools = EmptyDict

\* C21: the booking ids of the payments store are booking ids of the
\* bookings store; a process_payment call for an id that is not a booking
\* returned ERROR, and every ALLOWED confirm_booking names a stored booking.
C21_PaymentsAreForStoredBookings ==
    /\ DOMAIN stores.payments \subseteq DOMAIN stores.bookings
    /\ (request.name = "process_payment" /\ Delivered) =>
          (ToolResult("ERROR: Booking not found")
              <=> ~In(request.input["booking_id"], stores.bookings))
    /\ (request.name = "confirm_booking" /\ phase = "ALLOWED") =>
          In(request.input["booking_id"], stores.bookings)

\* a payment for an unknown booking was refused while the payment of a
\* stored booking was on record
C21_Witness ==
    /\ request.name = "process_payment"
    /\ request.input["booking_id"] = StrVal(BK002)
    /\ ToolResult("ERROR: Booking not found")
    /\ DOMAIN stores.payments = {BK001}

\* C23: a cancel_booking request for an id that is not in the bookings
\* store gets a context without days_until_checkin, which the
\* cancellation-window predicate reads as 0, and is rejected with exactly
\* "BLOCKED: Cannot cancel within 48 hours of check-in, No booking found to
\* cancel".
C23_UnknownBookingGetsBothMessages ==
    (/\ request.name = "cancel_booking"
     /\ HasBookingId
     /\ ~In(request.input["booking_id"], stores.bookings)
     /\ Decided) =>
        /\ "days_until_checkin" \notin DOMAIN ctx.d
        /\ cancellation_window_check(ctx.d) = Returned(FALSE)
        /\ phase = "BLOCKED"
        /\ verdict.violations =
              <<"Cannot cancel within 48 hours of check-in",
                "No booking found to cancel">>
        /\ event.cancel_tool =
              StrVal(<<"BLOCKED: ",
                       "Cannot cancel within 48 hours of check-in", ", ",
                       "No booking found to cancel">>)
        /\ Delivered => result = event.cancel_tool

\* the cancellation of BK002 came back with both messages
C23_Witness ==
    /\ request.name = "cancel_booking"
    /\ request.input = [booking_id |-> StrVal(BK002)]
    /\ result = StrVal(<<"BLOCKED: ",
                         "Cannot cancel within 48 hours of check-in", ", ",
                         "No booking found to cancel">>)

\* the tool of the call under way runs in this step
ToolRuns == phase = "ALLOWED" /\ result = NoneVal /\ result' # NoneVal

\* C22: a step changes the stores only when it is process_payment running;
\* an ALLOWED book_hotel, cancel_booking or confirm_booking leaves them as
\* they were.  So a booking that was cancelled is still stored, with its
\* payment if it had one, and a confirm_booking for a paid booking that was
\* cancelled is still ALLOWED.
C22_GuardedToolsLeaveStores ==
    [][/\ stores' # stores => (request.name = "process_payment" /\ ToolRuns)
       /\ (Guarded /\ ToolRuns) => stores' = stores
       /\ \A b \in cancelled_log' :
             /\ b \in DOMAIN stores'.bookings
             /\ b \in paid_log' => b \in DOMAIN stores'.payments
       /\ (/\ request'.name = "confirm_booking"
           /\ phase' \notin {"IDLE", "PENDING"}
           /\ "booking_id" \in DOMAIN request'.input
           /\ request'.input["booking_id"].t = "str"
           /\ request'.input["booking_id"].s
                 \in paid_log' \cap cancelled_log') =>
             phase' = "ALLOWED"]_vars

\* the cancellation of a booking that was cancelled before is ALLOWED again
C22_Witness ==
    /\ request.name = "cancel_booking"
    /\ request.input = [booking_id |-> StrVal(BK001)]
    /\ phase = "ALLOWED"
    /\ result = NoneVal
    /\ BK001 \in cancelled_log

\* a paid booking was confirmed after it had been cancelled
C22_WitnessConfirm ==
    /\ request.name = "confirm_booking"
    /\ ToolResult("SUCCESS: Confirmed ")
    /\ BK001 \in paid_log \cap cancelled_log
    /\ stores.bookings = STATE_initial.bookings

\* the booking id of number k, for k from 1 to 9: BK001 .. BK009
IdNumber(k) == <<"B", "K", "0", "0", CHOOSE c \in Digits : DigitVal(c) = k>>

\* C24: after every step the keys of BOOKINGS are BK001 .. BK00n for the n
\* bookings stored, and every booking is for an available hotel of HOTELS
\* with total = price * nights; a book_hotel call that succeeds adds the
\* booking of its arguments under the next id, which it reports, and keeps
\* the bookings there were; one that fails changes nothing; get_booking
\* finds exactly the ids issued.
C24_BookingIdsAreSequential ==
    [][LET n == Cardinality(DOMAIN BOOKINGS)
           a == returned'.args
           succeeded == returned'.value.s[1] = "SUCCESS: Booking "
       IN  /\ DOMAIN BOOKINGS' =
                 {IdNumber(k) : k \in 1..Cardinality(DOMAIN BOOKINGS')}
           /\ \A k \in DOMAIN BOOKINGS' :
                 /\ Bookable(BOOKINGS'[k].hotel)
                 /\ BOOKINGS'[k].total =
                       HOTELS[BOOKINGS'[k].hotel].price * BOOKINGS'[k].nights
           /\ (returned'.tool = "book_hotel" /\ succeeded) =>
                 /\ IdNumber(n + 1) \notin DOMAIN BOOKINGS
                 /\ DOMAIN BOOKINGS' = DOMAIN BOOKINGS \cup {IdNumber(n + 1)}
                 /\ BOOKINGS'[IdNumber(n + 1)] =
                       [hotel |-> a.hotel_id, guest |-> a.guest_name,
                        nights |-> a.nights,
                        total |-> HOTELS[a.hotel_id].price * a.nights]
                 /\ SubSeq(returned'.value.s, 2, 6) = IdNumber(n + 1)
                 /\ \A k \in DOMAIN BOOKINGS : BOOKINGS'[k] = BOOKINGS[k]
           /\ (returned'.tool = "book_hotel" /\ ~succeeded) =>
                 BOOKINGS' = BOOKINGS
           /\ returned'.tool = "get_booking" =>
                 (returned'.value.s[1] = "ERROR: Booking '"
                     <=> a.booking_id \notin DOMAIN BOOKINGS)]_vars

\* the second booking made got the id BK002, next to the first
C24_Witness ==
    /\ returned.tool = "book_hotel"
    /\ returned.value =
          StrVal(<<"SUCCESS: Booking ", "B", "K", "0", "0", "2",
                   " confirmed. ", "budget_inn", " for ", "2",
                   " nights. Total: $", "1", "6", "0">>)
    /\ DOMAIN BOOKINGS = {BK001, BK002}
    /\ BOOKINGS[BK001].hotel = "grand_hotel"
    /\ BOOKINGS[BK002] = [hotel |-> "budget_inn", guest |-> "Sarah",
                          nights |-> 2, total |-> 160]

\* get_booking found the second of three bookings
C24_WitnessGet ==
    /\ returned.tool = "get_booking"
    /\ returned.args.booking_id = BK002
    /\ Returns("Booking ")
    /\ Cardinality(DOMAIN BOOKINGS) = 3

(***************************************************************************)
(* test_neurosymbolic_hooks.py with several tool calls in flight: for each *)
(* call the hook validates and the tool then runs, as two steps, and the   *)
(* steps of different calls interleave on the one STATE.                   *)
(***************************************************************************)
\* the calls issued concurrently: each carries the arguments its tool
\* requires
ConcurrentCalls ==
    {call \in ToolCalls :
        /\ call.name \in {"confirm_booking", "cancel_booking",
                          "process_payment"}
        /\ "booking_id" \in DOMAIN call.input}
    \cup
    {[name |-> "book_hotel",
      input |-> [hotel |-> StrVal(<<"Grand Hotel">>),
                 check_in |-> StrVal(D_2026_03_20),
                 check_out |-> StrVal(D_2026_03_25),
                 guests |-> IntVal(2)]]}

\* run_tool, with a bug: cancel_booking takes the payment of the booking
\* out of the store (a refund)
run_tool_cancel_refunds(name, p, state) ==
    CASE name = "book_hotel" ->
            [stores |-> state,
             result |-> StrVal(<<"SUCCESS: Booked ">> \o Format(p["hotel"])
                               \o <<" for ">>
                               \o Format(Get(p, "guests", IntVal(1)))
                               \o <<" guests, ">> \o Format(p["check_in"])
                               \o <<" to ">> \o Format(p["check_out"]))]
      [] name = "cancel_booking" ->
            [stores |->
                [state EXCEPT !.payments =
                    [k \in DOMAIN @ \ {p["booking_id"].s} |-> @[k]]],
             result |-> StrVal(<<"SUCCESS: Cancelled booking ">>
                               \o Format(p["booking_id"]))]
      [] name = "process_payment" ->
            IF ~In(p["booking_id"], state.bookings)
            THEN [stores |-> state,
                  result |-> StrVal(<<"ERROR: Booking not found">>)]
            ELSE [stores |->
                     [state EXCEPT !.payments =
                         [k \in DOMAIN @ \cup {p["booking_id"].s} |->
                             IF k = p["booking_id"].s THEN p["amount"]
                             ELSE @[k]]],
                  result |-> StrVal(<<"SUCCESS: Processed $">>
                                    \o Format(p["amount"]) \o <<" for ">>
                                    \o Format(p["booking_id"]))]
      [] name = "confirm_booking" ->
            [stores |-> state,
             result |-> StrVal(<<"SUCCESS: Confirmed ">>
                               \o Format(p["booking_id"]))]

\* the tool called name runs on the arguments p and on STATE: STATE after
\* the run and the string the tool returns
run_tool(name, p, state) ==
    CASE name = "book_hotel" ->
            [stores |-> state,
             result |-> StrVal(<<"SUCCESS: Booked ">> \o Format(p["hotel"])
                               \o <<" for ">>
                               \o Format(Get(p, "guests", IntVal(1)))
                               \o <<" guests, ">> \o Format(p["check_in"])
                               \o <<" to ">> \o Format(p["check_out"]))]
      [] name = "cancel_booking" ->
            [stores |-> state,
             result |-> StrVal(<<"SUCCESS: Cancelled booking ">>
                               \o Format(p["booking_id"]))]
      [] name = "process_payment" ->
            IF ~In(p["booking_id"], state.bookings)
            THEN [stores |-> state,
                  result |-> StrVal(<<"ERROR: Booking not found">>)]
            ELSE [stores |->
                     [state EXCEPT !.payments =
                         [k \in DOMAIN @ \cup {p["booking_id"].s} |->
                             IF k = p["booking_id"].s THEN p["amount"]
                             ELSE @[k]]],
                  result |-> StrVal(<<"SUCCESS: Processed $">>
                                    \o Format(p["amount"]) \o <<" for ">>
                                    \o Format(p["booking_id"]))]
      [] name = "confirm_booking" ->
            [stores |-> state,
             result |-> StrVal(<<"SUCCESS: Confirmed ">>
                               \o Format(p["booking_id"]))]

\* what the concurrent steps leave alone
conc_frame ==
    <<now, request, event, phase, ctx, verdict, result, paid_log,
      cancelled_log, validate_vars, tools_vars, swap_vars>>

\* The agent issues a tool call in a free slot
Issue(i) ==
    /\ calls[i].phase = "IDLE"
    /\ \E call \in ConcurrentCalls :
          calls' = [calls EXCEPT ![i] =
                       [NoRequest EXCEPT !.request = call,
                                         !.phase = "PENDING"]]
    /\ UNCHANGED <<stores, conc_frame>>

\* The BeforeToolCallEvent callback for the call of slot i, on STATE as it
\* is now
Validate(i) ==
    /\ calls[i].phase = "PENDING"
    /\ LET h == hook_validate([tool_use |-> calls[i].request,
                               cancel_tool |-> NoneVal], stores, now)
       IN  calls' = [calls EXCEPT ![i].phase = h.phase,
                                  ![i].seen = stores,
                                  ![i].cancel_tool = h.event.cancel_tool]
    /\ UNCHANGED <<stores, conc_frame>>

\* The tool of the call of slot i runs, on STATE as it is now
Execute(i) ==
    /\ calls[i].phase = "ALLOWED"
    /\ calls[i].result = NoneVal
    /\ calls[i].cancel_tool = NoneVal
    /\ LET r == run_tool(calls[i].request.name, calls[i].request.input,
                         stores)
       IN  /\ stores' = r.stores
           /\ calls' = [calls EXCEPT ![i].result = r.result]
    /\ UNCHANGED conc_frame

\* The tool of a cancelled event does not run
Reject(i) ==
    /\ calls[i].phase = "BLOCKED"
    /\ calls[i].result = NoneVal
    /\ calls' = [calls EXCEPT ![i].result = calls[i].cancel_tool]
    /\ UNCHANGED <<stores, conc_frame>>

\* The call of slot i is over
Finish(i) ==
    /\ calls[i].result # NoneVal
    /\ calls' = [calls EXCEPT ![i] = NoRequest]
    /\ UNCHANGED <<stores, conc_frame>>

ConcurrentNext ==
    \E i \in Slots :
        \/ Issue(i)
        \/ Validate(i)
        \/ Execute(i)
        \/ Reject(i)
        \/ Finish(i)

SpecConcurrent == Init /\ [][ConcurrentNext]_vars

\* C25: whatever the interleaving of the calls in flight, a confirm_booking
\* call the hook has ALLOWED names a booking id that has a payment entry,
\* from its validation until its tool has run and the call is over.
C25_AllowedConfirmStaysPaid ==
    \A i \in Slots :
        (calls[i].request.name = "confirm_booking"
         /\ calls[i].phase = "ALLOWED") =>
            /\ In(calls[i].request.input["booking_id"], calls[i].seen.payments)
            /\ In(calls[i].request.input["booking_id"], stores.payments)

\* a confirmation was validated and has not run yet, and STATE is no longer
\* what the hook saw: a payment of another call went through in between
C25_Witness ==
    \E i, j \in Slots :
        /\ calls[i].request.name = "confirm_booking"
        /\ calls[i].phase = "ALLOWED"
        /\ calls[i].result = NoneVal
        /\ calls[i].seen # stores
        /\ calls[j].request.name = "process_payment"
        /\ calls[j].result # NoneVal

\* a confirmation ran after a cancellation of the same booking, validated
\* alongside it, had run
C25_WitnessCancel ==
    \E i, j \in Slots :
        /\ calls[i].request.name = "confirm_booking"
        /\ calls[i].result # NoneVal
        /\ calls[j].request = [name |-> "cancel_booking",
                               input |-> calls[i].request.input]
        /\ calls[j].result # NoneVal
        /\ calls[j].phase = "ALLOWED"

=============================================================================
